---- MODULE Spec2Model ----
(***************************************************************************)
(* ProtocolRouter (src/src/router.ts): the route table built by            *)
(* get/post/.../on, the bind-time guard of register(), and the dispatch    *)
(* loop of #handler with its two suspension points (await contextBuilder,  *)
(* await handler).                                                         *)
(*                                                                         *)
(* Strings whose characters the code inspects (patterns, URL parts,        *)
(* method names) are sequences of one-character strings, so that split,    *)
(* startsWith, slice, toUpperCase and decodeURIComponent are computed.     *)
(* JavaScript values that are thrown, returned or stored (errors,          *)
(* responses, contexts) are records [kind, text, num].                     *)
(*                                                                         *)
(* Environment: registration calls are made while no #handler call is in   *)
(* flight (a router is built by its factory and then bound); #handler is   *)
(* private and is called by the transport only, hence only after a         *)
(* register() that reached protocol.handle; request.url always parses (it  *)
(* comes from a Request), so the outermost catch of #handler is not        *)
(* entered.                                                                *)
(*                                                                         *)
(* Spec runs one call of #handler at a time; SpecUnserializable does so on *)
(* a router one of whose handlers throws a bigint; SpecConcurrent runs up  *)
(* to MaxDispatches calls interleaved at their awaits; SpecProvider runs   *)
(* the ProtocolProvider facade (src/unnamed/part_000): register, apply     *)
(* and the session-created listener.                                       *)
(***************************************************************************)
EXTENDS Integers, Sequences, FiniteSets, TLC

(* ------------------------------ bounds -------------------------------- *)

\* number of registration calls (get/post/on) made on the router
MaxRegs == 3

(* ------------------------- JavaScript values -------------------------- *)

JSNull == [kind |-> "null", text |-> "", num |-> 0]
JSUndefined == [kind |-> "undefined", text |-> "", num |-> 0]
JSString(s) == [kind |-> "string", text |-> s, num |-> 0]
JSError(name) == [kind |-> "Error", text |-> name, num |-> 0]
JSBigInt(n) == [kind |-> "bigint", text |-> "", num |-> n]
\* a fresh object; num is its identity (allocation ordinal)
JSObject(n) == [kind |-> "object", text |-> "", num |-> n]
\* a Response with the given status and body text
Response(status, body) == [kind |-> "Response", text |-> body, num |-> status]

\* `error instanceof Response`
InstanceOfResponse(v) == v.kind = "Response"

\* ToBoolean of a value, as applied by `if (lastError)`
ToBoolean(v) ==
  CASE v.kind \in {"null", "undefined"} -> FALSE
    [] v.kind = "string" -> v.text # ""
    [] v.kind \in {"bigint", "number"} -> v.num # 0
    [] OTHER -> TRUE

\* JSON.stringify throws a TypeError on a BigInt
StringifyThrows(v) == v.kind = "bigint"

\* JSON.stringify of a value used as an object property: an Error, a
\* Response or a plain empty object has no own enumerable property
StringifyValue(v) ==
  CASE v.kind = "string" -> "\"" \o v.text \o "\""
    [] v.kind = "null" -> "null"
    [] OTHER -> "{}"

(* ------------------------------ strings ------------------------------- *)

LowerCaseLetters ==
  <<"a", "b", "c", "d", "e", "f", "g", "h", "i", "j", "k", "l", "m",
    "n", "o", "p", "q", "r", "s", "t", "u", "v", "w", "x", "y", "z">>
UpperCaseLetters ==
  <<"A", "B", "C", "D", "E", "F", "G", "H", "I", "J", "K", "L", "M",
    "N", "O", "P", "Q", "R", "S", "T", "U", "V", "W", "X", "Y", "Z">>

\* the upper-case form of each lower-case letter
UpperCaseOf ==
  [c \in {LowerCaseLetters[i] : i \in DOMAIN LowerCaseLetters} |->
     UpperCaseLetters[CHOOSE i \in DOMAIN LowerCaseLetters : LowerCaseLetters[i] = c]]

UpperChar(c) == IF c \in DOMAIN UpperCaseOf THEN UpperCaseOf[c] ELSE c

\* String.prototype.toUpperCase
ToUpperCase(s) == [i \in DOMAIN s |-> UpperChar(s[i])]

\* String.prototype.split('/'): the segments between the slashes, empty
\* segments kept
RECURSIVE SplitFrom(_, _, _)
SplitFrom(s, i, cur) ==
  IF i > Len(s) THEN <<cur>>
  ELSE IF s[i] = "/" THEN <<cur>> \o SplitFrom(s, i + 1, <<>>)
  ELSE SplitFrom(s, i + 1, Append(cur, s[i]))

Split(s) == SplitFrom(s, 1, <<>>)

\* String.prototype.startsWith(':')
StartsWithColon(s) == Len(s) > 0 /\ s[1] = ":"

\* String.prototype.slice(1)
Slice1(s) == IF Len(s) = 0 THEN <<>> ELSE Tail(s)

HexDigits ==
  {"0", "1", "2", "3", "4", "5", "6", "7", "8", "9",
   "A", "B", "C", "D", "E", "F", "a", "b", "c", "d", "e", "f"}

\* the first hex digit of a byte below 0x80
LowHexDigits == {"0", "1", "2", "3", "4", "5", "6", "7"}

\* the character of an escaped ASCII byte, for the escapes the requests use
AsciiChar(d1, d2) ==
  CASE d1 = "4" /\ d2 = "1" -> "A"
    [] d1 = "6" /\ d2 = "1" -> "a"
    [] d1 = "7" /\ d2 = "5" -> "u"
    [] d1 = "2" /\ d2 = "5" -> "%"
    [] d1 = "2" /\ d2 \in {"F", "f"} -> "/"
    [] OTHER -> "?"

\* decodeURIComponent: [ok |-> TRUE, s |-> decoded] or, when a "%" is not
\* followed by two hex digits or escapes a lone non-ASCII byte, ok = FALSE
\* (the URIError the call throws)
RECURSIVE DecodeFrom(_, _, _)
DecodeFrom(s, i, acc) ==
  IF i > Len(s) THEN [ok |-> TRUE, s |-> acc]
  ELSE IF s[i] # "%" THEN DecodeFrom(s, i + 1, Append(acc, s[i]))
  ELSE IF i + 2 > Len(s) \/ s[i + 1] \notin HexDigits \/ s[i + 2] \notin HexDigits
    THEN [ok |-> FALSE, s |-> <<>>]
  ELSE IF s[i + 1] \notin LowHexDigits THEN [ok |-> FALSE, s |-> <<>>]
  ELSE DecodeFrom(s, i + 3, Append(acc, AsciiChar(s[i + 1], s[i + 2])))

\* no decoding: the segment as it is in the URL
Undecoded(s) == [ok |-> TRUE, s |-> s]

DecodeURIComponent(s) == DecodeFrom(s, 1, <<>>)

URIError == JSError("URIError")

(* ------------------------------ inputs -------------------------------- *)

GET == <<"G", "E", "T">>
POST == <<"P", "O", "S", "T">>
PUT == <<"P", "U", "T">>
DELETE == <<"D", "E", "L", "E", "T", "E">>
PATCH == <<"P", "A", "T", "C", "H">>
HEAD == <<"H", "E", "A", "D">>
OPTIONS == <<"O", "P", "T", "I", "O", "N", "S">>
TRACE == <<"T", "R", "A", "C", "E">>
CONNECT == <<"C", "O", "N", "N", "E", "C", "T">>

HttpMethod == {GET, POST, PUT, DELETE, PATCH, HEAD, OPTIONS, TRACE, CONNECT}

\* the key of the wildcard bucket
Star == <<"*">>

\* the per-method registration functions the model calls (get)
RegMethods == {GET}

\* "/u/:i" and "/:n/a": both match /u/a; the second has a parameter
\* segment before a literal one
PathUI == <<"/", "u", "/", ":", "i">>
PathNA == <<"/", ":", "n", "/", "a">>
Paths == {PathUI, PathNA}

\* handler functions: name, declared parameter count (handler.length) and
\* what the function throws (or rejects with) when it does not return:
\* h1 takes ({ request, params }) and throws a string, h2 takes
\* ({ request, params }, context) and throws undefined, as a bare
\* Promise.reject() does
H1 == [name |-> "h1", length |-> 1, throws |-> JSString("a")]
H2 == [name |-> "h2", length |-> 2, throws |-> JSUndefined]
HandlerPool == {H1, H2}

\* the (path, handler) arguments of the registration calls the model makes
RegInputs == {<<PathUI, H1>>, <<PathUI, H2>>, <<PathNA, H1>>}

\* a request: method as sent, and the host and pathname of new URL(request.url)
Req(method, host, pathname) == [method |-> method, host |-> host, pathname |-> pathname]

Requests ==
  { Req(<<"g", "e", "t">>, <<"u">>, <<"/", "a">>),               \* get x://u/a
    Req(POST, <<"u">>, <<"/", "a">>),                            \* POST x://u/a
    Req(<<"g", "e", "t">>, <<"u">>, <<"/", "%", "4", "1">>),     \* get x://u/%41
    Req(<<"g", "e", "t">>, <<"u">>, <<"/", "%">>),               \* get x://u/%
    Req(<<"g", "e", "t">>, <<"%">>, <<"/", "b">>),               \* get x://%/b
    Req(<<"g", "e", "t">>, <<"u">>, <<>>),                       \* get x://u
    Req(<<"g", "e", "t">>, <<"%">>, <<>>),                       \* get x://%
    Req(<<"g", "e", "t">>, <<"u">>, <<"/", "a", "/", "b">>) }    \* get x://u/a/b

\* the response a context-builder may throw to short-circuit
Unauthorized == Response(401, "unauthorized")

\* what the context-builder may throw: an Error, or a Response
BuilderThrows == {JSError("b"), Unauthorized}

Schemes == {"app"}

(* ---------------------------- route table ----------------------------- *)

\* index of the bucket of a method in the table, 0 when absent
BucketIndex(rts, method) ==
  IF \E b \in DOMAIN rts : rts[b].method = method
  THEN CHOOSE b \in DOMAIN rts : rts[b].method = method
  ELSE 0

\* index of a path in a bucket's Map, 0 when absent (Map.get, by string identity)
PathIndex(entry, path) ==
  IF \E p \in DOMAIN entry : entry[p].path = path
  THEN CHOOSE p \in DOMAIN entry : entry[p].path = path
  ELSE 0

\* a registration that puts the new handler in front of the list
PushFront(handlers, handler) == <<handler>> \o handlers

\* handlers.push(handler)
Push(handlers, handler) == Append(handlers, handler)

\* an #add that puts a new bucket in front of the existing ones
AddRouteBucketFirst(rts, method, path, handler) ==
  LET b == BucketIndex(rts, method) IN
  IF b = 0
  THEN <<[method |-> method,
          entry |-> <<[path |-> path, handlers |-> <<handler>>]>>]>> \o rts
  ELSE LET p == PathIndex(rts[b].entry, path) IN
       IF p # 0
       THEN [rts EXCEPT ![b].entry[p].handlers = Push(@, handler)]
       ELSE [rts EXCEPT ![b].entry = Append(@, [path |-> path, handlers |-> <<handler>>])]

\* an #add that sets a new list on every call, replacing the stored one
AddRouteReplacing(rts, method, path, handler) ==
  LET b == BucketIndex(rts, method) IN
  IF b = 0
  THEN Append(rts, [method |-> method,
                    entry |-> <<[path |-> path, handlers |-> <<handler>>]>>])
  ELSE LET p == PathIndex(rts[b].entry, path) IN
       IF p # 0
       THEN [rts EXCEPT ![b].entry[p].handlers = <<handler>>]
       ELSE [rts EXCEPT ![b].entry = Append(@, [path |-> path, handlers |-> <<handler>>])]

\* #add: the table after registering handler under (method, path)
AddRoute(rts, method, path, handler) ==
  LET b == BucketIndex(rts, method) IN
  IF b = 0
  THEN Append(rts, [method |-> method,
                    entry |-> <<[path |-> path, handlers |-> <<handler>>]>>])
  ELSE LET p == PathIndex(rts[b].entry, path) IN
       IF p # 0
       THEN [rts EXCEPT ![b].entry[p].handlers = Push(@, handler)]
       ELSE [rts EXCEPT ![b].entry = Append(@, [path |-> path, handlers |-> <<handler>>])]

\* number of handlers stored in a bucket's Map / in the table
RECURSIVE EntryCount(_)
EntryCount(entry) ==
  IF entry = <<>> THEN 0 ELSE Len(Head(entry).handlers) + EntryCount(Tail(entry))

RECURSIVE HandlerCount(_)
HandlerCount(rts) ==
  IF rts = <<>> THEN 0 ELSE EntryCount(Head(rts).entry) + HandlerCount(Tail(rts))

(* ----------------------------- matching ------------------------------- *)

\* `/${url.host}${url.pathname}`.split('/')
PathPartsOf(request) == Split(<<"/">> \o request.host \o request.pathname)

\* request.method.toUpperCase()
RequestMethodOf(request) == ToUpperCase(request.method)

\* a bucket filter that lets every bucket through
IsEligibleAlways(method, requestMethod) == TRUE

\* a bucket filter that forgets the wildcard bucket
IsEligibleExact(method, requestMethod) == method = requestMethod

\* the bucket filter: `method !== '*' && method !== requestMethod` skips
IsEligible(method, requestMethod) == method = Star \/ method = requestMethod

\* a length check that lets a pattern match a prefix of the path
AtMostLength(routeParts, pathParts) == Len(routeParts) <= Len(pathParts)

\* `routeParts.length !== pathParts.length` skips the pattern
SameLength(routeParts, pathParts) == Len(routeParts) = Len(pathParts)

\* params[name] = value; params is a set of <<name, value>> pairs
SetParam(params, name, value) ==
  {kv \in params : kv[1] # name} \cup {<<name, value>>}

\* `routePart !== pathPart` rejects the pattern
LiteralEqual(routePart, pathPart) == routePart = pathPart

\* the segment walk from position i: "matched" with the params, "mismatch",
\* or "threw" when decodeURIComponent throws
RECURSIVE WalkFrom(_, _, _, _)
WalkFrom(routeParts, pathParts, i, params) ==
  IF i > Len(routeParts) THEN [outcome |-> "matched", params |-> params]
  ELSE IF StartsWithColon(routeParts[i])
    THEN LET dec == DecodeURIComponent(pathParts[i]) IN
         IF dec.ok
         THEN WalkFrom(routeParts, pathParts, i + 1,
                       SetParam(params, Slice1(routeParts[i]), dec.s))
         ELSE [outcome |-> "threw", params |-> {}]
  ELSE IF LiteralEqual(routeParts[i], pathParts[i])
    THEN WalkFrom(routeParts, pathParts, i + 1, params)
  ELSE [outcome |-> "mismatch", params |-> {}]

\* one pattern against the request's segments
MatchRoute(path, pathParts) ==
  LET routeParts == Split(path) IN
  IF ~SameLength(routeParts, pathParts)
  THEN [outcome |-> "length", params |-> {}]
  ELSE WalkFrom(routeParts, pathParts, 1, {})

(* ------------------------------- state -------------------------------- *)

\* number of dispatches that may be in flight at once
MaxDispatches == 2
Dispatches == 1 .. MaxDispatches

VARIABLES
  routes,           \* #routes: sequence of [method, entry], entry a sequence
                    \* of [path, handlers], both in insertion order
  contextBuilder,   \* TRUE iff the constructor was given a contextBuilder
  handled,          \* the schemes of the protocol.handle(scheme, handler) calls made
  registerResult,   \* what the last register() call returned
  dispatch,         \* per call of #handler: its frame and its history
  registered,       \* history: the registration calls made, in call order
  schemeRouters,    \* ProtocolProvider.#schemeRouters: sequence of
                    \* [customScheme, router], router a factory
  electron,         \* the host: the registerSchemesAsPrivileged calls made, the
                    \* 'session-created' listeners, and per session what the
                    \* listeners did when it was created
  providerCalls     \* history: the ProtocolProvider register calls, in call order

\* the fields of the ProtocolProvider and the host it is wired into
providerVars == <<schemeRouters, electron, providerCalls>>

vars ==
  <<routes, contextBuilder, handled, registerResult, dispatch, registered,
    schemeRouters, electron, providerCalls>>

NotCalled == [kind |-> "none", text |-> "", num |-> 0]
NoHandlersError == JSError("No handlers have been registered")
NoRequest == Req(<<>>, <<>>, <<>>)

\* the frame of a call of #handler that has not started
IdleFrame ==
  [pc |-> "idle", request |-> NoRequest, bi |-> 0, pi |-> 0, hi |-> 0,
   params |-> {}, context |-> JSUndefined, lastError |-> JSNull,
   result |-> JSUndefined, log |-> <<>>]

\* the handler of the candidate a frame is at
HandlerAt(rts, d) == rts[d.bi].entry[d.pi].handlers[d.hi]

\* a history entry: what happened (ev) at candidate (bi, pi, hi), with the
\* arguments passed (request, params, nargs) and the value involved
Event(ev, rts, d, val, nargs) ==
  [ev |-> ev, bi |-> d.bi, pi |-> d.pi, hi |-> d.hi,
   handler |-> IF d.hi = 0 THEN "" ELSE HandlerAt(rts, d).name,
   request |-> d.request, params |-> d.params, val |-> val, nargs |-> nargs]

Logged(d, e) == [d EXCEPT !.log = Append(@, e)]

(* ------------------------------ dispatch ------------------------------- *)

\* an assignment that keeps the first error
RecordFirstError(d, error) ==
  IF d.lastError = JSNull THEN [d EXCEPT !.lastError = error] ELSE d

\* `lastError = error`
RecordError(d, error) == [d EXCEPT !.lastError = error]

NotFoundBody == "{\"message\":\"Not found\"}"
InternalErrorBody(reason) ==
  "{\"message\":\"Internal error\",\"reason\":" \o StringifyValue(reason) \o "}"

\* an end of #handler that tests `lastError !== undefined`
FinishUnlessUndefined(d) ==
  IF d.lastError # JSUndefined
  THEN [d EXCEPT !.pc = "done",
                 !.result = Response(500, InternalErrorBody(d.lastError))]
  ELSE [d EXCEPT !.pc = "done", !.result = Response(404, NotFoundBody)]

\* the end of #handler: Response.json(...) of the 500 or the 404; the
\* async function rejects when Response.json throws
Finish(d) ==
  IF ToBoolean(d.lastError)
  THEN IF StringifyThrows(d.lastError)
       THEN [d EXCEPT !.pc = "rejected", !.result = JSError("TypeError")]
       ELSE [d EXCEPT !.pc = "done",
                      !.result = Response(500, InternalErrorBody(d.lastError))]
  ELSE [d EXCEPT !.pc = "done", !.result = Response(404, NotFoundBody)]

\* `return await handler({ request, params })`: the call, then the await
CallHandler(rts, d) ==
  Logged([d EXCEPT !.pc = "handler"], Event("handler", rts, d, JSUndefined, 1))

\* `return await handler({ request, params }, context)`
CallHandlerWithContext(rts, d) ==
  Logged([d EXCEPT !.pc = "handler"], Event("handler", rts, d, d.context, 2))

\* a loop body that does not await the context-builder: the handler is
\* called at once, with the builder's pending promise
AttemptWithoutAwait(rts, cb, d) ==
  IF ~cb
  THEN CallHandler(rts, d)
  ELSE CallHandlerWithContext(rts, Logged(d, Event("builder", rts, d, JSUndefined, 1)))

\* the body of the handler loop up to its first await
Attempt(rts, cb, d) ==
  IF ~cb
  THEN CallHandler(rts, d)
  ELSE Logged([d EXCEPT !.pc = "builder"], Event("builder", rts, d, JSUndefined, 1))

\* the bucket and pattern loops from pattern pi of bucket bi on, up to the
\* first await or the end of #handler
RECURSIVE Scan(_, _, _, _, _)
Scan(rts, cb, d, bi, pi) ==
  IF bi > Len(rts) THEN Finish(d)
  ELSE IF ~IsEligible(rts[bi].method, RequestMethodOf(d.request)) \/ pi > Len(rts[bi].entry)
    THEN Scan(rts, cb, d, bi + 1, 1)
  ELSE LET m == MatchRoute(rts[bi].entry[pi].path, PathPartsOf(d.request))
           at == [d EXCEPT !.bi = bi, !.pi = pi, !.hi = 0, !.params = {}]
       IN CASE m.outcome = "matched" ->
                 Attempt(rts, cb, [at EXCEPT !.hi = 1, !.params = m.params])
            [] m.outcome = "threw" ->
                 Scan(rts, cb,
                      RecordError(Logged(at, Event("decodeThrew", rts, at, URIError, 0)),
                                  URIError),
                      bi, pi + 1)
            [] OTHER -> Scan(rts, cb, d, bi, pi + 1)

\* a loop that gives up after the handlers of the first matching pattern
ContinueFirstPatternOnly(rts, cb, d) ==
  IF d.hi < Len(rts[d.bi].entry[d.pi].handlers)
  THEN Attempt(rts, cb, [d EXCEPT !.hi = @ + 1])
  ELSE Finish(d)

\* `continue` in the handler loop: the next handler of the pattern, or the
\* next pattern
Continue(rts, cb, d) ==
  IF d.hi < Len(rts[d.bi].entry[d.pi].handlers)
  THEN Attempt(rts, cb, [d EXCEPT !.hi = @ + 1])
  ELSE Scan(rts, cb, d, d.bi, d.pi + 1)

\* a return that an earlier recorded error overrides
ReturnUnlessError(d, value) ==
  IF ToBoolean(d.lastError) THEN Finish(d)
  ELSE [d EXCEPT !.pc = "done", !.result = value]

\* `return <value>` out of the loops
Return(d, value) == [d EXCEPT !.pc = "done", !.result = value]

\* a catch that treats a thrown Response like any other error
BuilderFailedNoShortCircuit(rts, cb, d, error) ==
  IF HandlerAt(rts, d).length < 2 THEN CallHandler(rts, d)
  ELSE Continue(rts, cb, RecordError(d, error))

\* a catch that invokes the handler without context whatever it declares
BuilderFailedAnyArity(rts, cb, d, error) ==
  IF InstanceOfResponse(error) THEN Return(d, error)
  ELSE CallHandler(rts, d)

\* the catch of `await contextBuilder(request)`
BuilderFailed(rts, cb, d, error) ==
  IF InstanceOfResponse(error) THEN Return(d, error)
  ELSE IF HandlerAt(rts, d).length < 2 THEN CallHandler(rts, d)
  ELSE Continue(rts, cb, RecordError(d, error))

\* the catch around one handler attempt
HandlerFailed(rts, cb, d, error) == Continue(rts, cb, RecordError(d, error))

\* number of contextBuilder calls a frame has made
BuilderCalls(d) == Cardinality({k \in DOMAIN d.log : d.log[k].ev = "builder"})

(* ------------------------- ProtocolProvider ---------------------------- *)

\* number of (scheme, router factory) pairs given to the provider
MaxPairs == 2

\* number of sessions the host creates
MaxSessions == 2
Sessions == 1 .. MaxSessions

\* the names of the custom schemes
ProviderSchemes == {"app", "api", "cdn"}

\* a CustomScheme object
CustomSchemeOf(name) == [scheme |-> name]

\* the router factories: "bare" returns a router without registrations,
\* "user" a router with get('/u/:i', h1)
Factories == {"bare", "user"}

\* the route table of the router a call of the factory returns
RouterOf(factory) ==
  IF factory = "bare" THEN <<>> ELSE AddRoute(<<>>, GET, PathUI, H1)

\* the host before any call: no privileged declaration, no listener, no session
NoElectronCalls ==
  [declarations |-> <<>>, listeners |-> 0,
   sessions |-> [s \in Sessions |-> [created |-> FALSE, calls |-> <<>>]]]

\* schemeRouters.map(x => x.customScheme)
CustomSchemes(sr) == [k \in DOMAIN sr |-> sr[k].customScheme]

\* schemeRouter.router().register(session.protocol, schemeRouter.customScheme.scheme):
\* the factory call, then the register call on the router it returned, with
\* what that call returns and whether it reached protocol.handle
BindCalls(schemeRouter, s) ==
  LET rts == RouterOf(schemeRouter.router) IN
  << [op |-> "router", factory |-> schemeRouter.router, protocol |-> 0,
      scheme |-> "", result |-> JSUndefined, installed |-> FALSE],
     [op |-> "register", factory |-> schemeRouter.router, protocol |-> s,
      scheme |-> schemeRouter.customScheme.scheme,
      result |-> IF Len(rts) = 0 THEN NoHandlersError ELSE JSUndefined,
      installed |-> Len(rts) # 0] >>

\* a listener that wires the first pair only
ForEachFirstOnly(sr, s, k) ==
  IF k > Len(sr) \/ k > 1 THEN <<>> ELSE BindCalls(sr[k], s)

\* this.#schemeRouters.forEach(...) of the 'session-created' listener, from
\* element k on
RECURSIVE ForEach(_, _, _)
ForEach(sr, s, k) ==
  IF k > Len(sr) THEN <<>> ELSE BindCalls(sr[k], s) \o ForEach(sr, s, k + 1)

\* the calls the installed listeners make for a new session
RECURSIVE Emit(_, _, _)
Emit(listeners, sr, s) ==
  IF listeners = 0 THEN <<>> ELSE ForEach(sr, s, 1) \o Emit(listeners - 1, sr, s)

(* ------------------------------ actions -------------------------------- *)

NoDispatchInFlight == \A i \in Dispatches : dispatch[i].pc = "idle"

Init ==
  /\ routes = <<>>
  /\ contextBuilder \in BOOLEAN
  /\ handled = <<>>
  /\ registerResult = NotCalled
  /\ dispatch = [i \in Dispatches |-> IdleFrame]
  /\ registered = <<>>
  /\ schemeRouters = <<>>
  /\ electron = NoElectronCalls
  /\ providerCalls = <<>>

\* router.get(path, handler), router.post(path, handler), ...: #add bound
\* to the method. Registration is made between dispatches.
Method(method, path, handler) ==
  /\ HandlerCount(routes) < MaxRegs
  /\ NoDispatchInFlight
  /\ routes' = AddRoute(routes, method, path, handler)
  /\ registered' = Append(registered, [method |-> method, path |-> path, handler |-> handler])
  /\ UNCHANGED <<contextBuilder, handled, registerResult, dispatch, providerVars>>

\* router.on(path, handler)
On(path, handler) ==
  /\ HandlerCount(routes) < MaxRegs
  /\ NoDispatchInFlight
  /\ routes' = AddRoute(routes, Star, path, handler)
  /\ registered' = Append(registered, [method |-> Star, path |-> path, handler |-> handler])
  /\ UNCHANGED <<contextBuilder, handled, registerResult, dispatch, providerVars>>

\* a register() without the guard
RegisterUnguarded(scheme) ==
  /\ \A k \in DOMAIN handled : handled[k] # scheme
  /\ handled' = Append(handled, scheme)
  /\ registerResult' = JSUndefined
  /\ UNCHANGED <<routes, contextBuilder, dispatch, registered, providerVars>>

\* router.register(protocol, scheme); the transport takes one handler per
\* scheme
Register(scheme) ==
  /\ IF Len(routes) = 0
     THEN /\ registerResult' = NoHandlersError
          /\ UNCHANGED handled
     ELSE /\ \A k \in DOMAIN handled : handled[k] # scheme
          /\ handled' = Append(handled, scheme)
          /\ registerResult' = JSUndefined
  /\ UNCHANGED <<routes, contextBuilder, dispatch, registered, providerVars>>

\* the transport calls the installed #handler with a request; the call runs
\* to its first await or to its end
Dispatch(i, request) ==
  /\ Len(handled) > 0
  /\ dispatch[i].pc = "idle"
  /\ dispatch' = [dispatch EXCEPT ![i] =
       Scan(routes, contextBuilder, [IdleFrame EXCEPT !.request = request], 1, 1)]
  /\ UNCHANGED <<routes, contextBuilder, handled, registerResult, registered, providerVars>>

\* `await contextBuilder(request)` resumes with a context (a fresh object)
BuilderResolve(i) ==
  LET d == dispatch[i]
      c == JSObject(BuilderCalls(d))
      e == Logged(d, Event("context", routes, d, c, 0))
  IN /\ d.pc = "builder"
     /\ dispatch' = [dispatch EXCEPT ![i] =
          CallHandlerWithContext(routes, [e EXCEPT !.context = c])]
     /\ UNCHANGED <<routes, contextBuilder, handled, registerResult, registered, providerVars>>

\* `await contextBuilder(request)` throws
BuilderReject(i, error) ==
  LET d == dispatch[i]
      e == Logged(d, Event("builderThrew", routes, d, error, 0))
  IN /\ d.pc = "builder"
     /\ dispatch' = [dispatch EXCEPT ![i] = BuilderFailed(routes, contextBuilder, e, error)]
     /\ UNCHANGED <<routes, contextBuilder, handled, registerResult, registered, providerVars>>

\* the response a handler returns: each handler function has its own
HandlerResponse(handler) == Response(200, handler.name)

\* `await handler(...)` resumes with the handler's response
HandlerResolve(i) ==
  LET d == dispatch[i]
      r == HandlerResponse(HandlerAt(routes, d))
  IN /\ d.pc = "handler"
     /\ dispatch' = [dispatch EXCEPT ![i] =
          Return(Logged(d, Event("returned", routes, d, r, 0)), r)]
     /\ UNCHANGED <<routes, contextBuilder, handled, registerResult, registered, providerVars>>

\* a rejection recorded in a lastError that all the calls in flight share
HandlerRejectShared(i) ==
  LET d == dispatch[i]
      error == HandlerAt(routes, d).throws
      e == Logged(d, Event("threw", routes, d, error, 0))
  IN /\ d.pc = "handler"
     /\ dispatch' =
          [j \in Dispatches |->
             IF j = i THEN HandlerFailed(routes, contextBuilder, e, error)
             ELSE IF dispatch[j].pc \in {"builder", "handler"}
               THEN RecordError(dispatch[j], error)
             ELSE dispatch[j]]
     /\ UNCHANGED <<routes, contextBuilder, handled, registerResult, registered, providerVars>>

\* `await handler(...)` throws
HandlerReject(i) ==
  LET d == dispatch[i]
      error == HandlerAt(routes, d).throws
      e == Logged(d, Event("threw", routes, d, error, 0))
  IN /\ d.pc = "handler"
     /\ dispatch' = [dispatch EXCEPT ![i] = HandlerFailed(routes, contextBuilder, e, error)]
     /\ UNCHANGED <<routes, contextBuilder, handled, registerResult, registered, providerVars>>

\* the transport takes the settled promise of a #handler call; the frame is gone
Deliver(i) ==
  /\ dispatch[i].pc \in {"done", "rejected"}
  /\ dispatch' = [dispatch EXCEPT ![i] = IdleFrame]
  /\ UNCHANGED <<routes, contextBuilder, handled, registerResult, registered, providerVars>>

\* one dispatch at a time
Next ==
  \/ \E m \in RegMethods, r \in RegInputs : Method(m, r[1], r[2])
  \/ \E r \in RegInputs : On(r[1], r[2])
  \/ \E s \in Schemes : Register(s)
  \/ \E r \in Requests : Dispatch(1, r)
  \/ BuilderResolve(1)
  \/ \E e \in BuilderThrows : BuilderReject(1, e)
  \/ HandlerResolve(1)
  \/ HandlerReject(1)
  \/ Deliver(1)

Spec == Init /\ [][Next]_vars

\* a handler taking ({ request, params }) that throws a bigint
H3 == [name |-> "h3", length |-> 1, throws |-> JSBigInt(1)]

\* registrations of a router one of whose handlers throws a value that
\* JSON.stringify cannot serialize
UnserializableRegInputs == {<<PathUI, H3>>, <<PathUI, H2>>}

\* one dispatch at a time, over a router with such a handler
NextUnserializable ==
  \/ \E m \in RegMethods, r \in UnserializableRegInputs : Method(m, r[1], r[2])
  \/ \E r \in UnserializableRegInputs : On(r[1], r[2])
  \/ \E s \in Schemes : Register(s)
  \/ \E r \in Requests : Dispatch(1, r)
  \/ BuilderResolve(1)
  \/ \E e \in BuilderThrows : BuilderReject(1, e)
  \/ HandlerResolve(1)
  \/ HandlerReject(1)
  \/ Deliver(1)

SpecUnserializable == Init /\ [][NextUnserializable]_vars

\* the registrations and the requests of the concurrent runs: a get handler
\* and a wildcard handler for "/u/:i", registered in either order; a get
\* request, which both buckets serve, and a POST request, which the wildcard
\* bucket serves
ConcurrentRegInputs == {<<GET, PathUI, H1>>, <<Star, PathUI, H2>>}
ConcurrentRequests ==
  {Req(<<"g", "e", "t">>, <<"u">>, <<"/", "a">>), Req(POST, <<"u">>, <<"/", "a">>)}

\* each of these registrations is made once
NotYetRegistered(r) ==
  \A k \in DOMAIN registered :
    <<registered[k].method, registered[k].path, registered[k].handler>> # r

\* the calls of #handler are numbered in the order the transport makes them
NextCall(i) == \A j \in 1 .. (i - 1) : dispatch[j].pc # "idle"

\* up to MaxDispatches calls of #handler in flight at once, interleaved at
\* their awaits
NextConcurrent ==
  \/ \E r \in ConcurrentRegInputs :
       r[1] = GET /\ NotYetRegistered(r) /\ Method(r[1], r[2], r[3])
  \/ \E r \in ConcurrentRegInputs :
       r[1] = Star /\ NotYetRegistered(r) /\ On(r[2], r[3])
  \/ \E s \in Schemes : Register(s)
  \/ \E i \in Dispatches, r \in ConcurrentRequests : NextCall(i) /\ Dispatch(i, r)
  \/ \E i \in Dispatches : BuilderResolve(i)
  \/ \E i \in Dispatches, e \in BuilderThrows : BuilderReject(i, e)
  \/ \E i \in Dispatches : HandlerResolve(i)
  \/ \E i \in Dispatches : HandlerReject(i)

SpecConcurrent == Init /\ [][NextConcurrent]_vars

\* the variables of the router
routerVars == <<routes, contextBuilder, handled, registerResult, dispatch, registered>>

\* ProtocolProvider.register(customScheme, router), static (the first call,
\* which constructs the provider) or not; each scheme is given once
ProviderRegister(name, factory) ==
  /\ Len(schemeRouters) < MaxPairs
  /\ \A k \in DOMAIN schemeRouters : schemeRouters[k].customScheme.scheme # name
  /\ schemeRouters' =
       Push(schemeRouters, [customScheme |-> CustomSchemeOf(name), router |-> factory])
  /\ providerCalls' = Append(providerCalls, [scheme |-> name, factory |-> factory])
  /\ UNCHANGED <<electron, routerVars>>

\* provider.apply(); protocol.registerSchemesAsPrivileged can be called once
Apply ==
  /\ Len(schemeRouters) > 0
  /\ electron.declarations = <<>>
  /\ electron' = [electron EXCEPT
       !.declarations = Append(@, CustomSchemes(schemeRouters)),
       !.listeners = @ + 1]
  /\ UNCHANGED <<schemeRouters, providerCalls, routerVars>>

\* the host creates session s and emits 'session-created'
SessionCreated(s) ==
  /\ ~electron.sessions[s].created
  /\ electron' = [electron EXCEPT !.sessions[s] =
       [created |-> TRUE, calls |-> Emit(electron.listeners, schemeRouters, s)]]
  /\ UNCHANGED <<schemeRouters, providerCalls, routerVars>>

NextProvider ==
  \/ \E name \in ProviderSchemes, factory \in Factories : ProviderRegister(name, factory)
  \/ Apply
  \/ \E s \in Sessions : SessionCreated(s)

SpecProvider == Init /\ [][NextProvider]_vars

(* --------------------- vocabulary of the properties -------------------- *)

\* a frame whose #handler call has returned a response
Done(d) == d.pc = "done"

\* the history entries of a frame with the given kind at candidate (bi, pi, hi)
At(d, ev, bi, pi, hi) ==
  {k \in DOMAIN d.log :
     /\ d.log[k].ev = ev
     /\ d.log[k].bi = bi /\ d.log[k].pi = pi /\ d.log[k].hi = hi}

\* the handlers registered under (method, path), in call order
RegisteredUnder(method, path) ==
  SelectSeq(registered, LAMBDA r : r.method = method /\ r.path = path)

\* the handler invocation at history entry k is of the hi-th handler
\* registered under its (method, path)
InvokesRegistered(d, k) ==
  LET e == d.log[k]
      regs == RegisteredUnder(routes[e.bi].method, routes[e.bi].entry[e.pi].path)
  IN e.hi <= Len(regs) /\ regs[e.hi].handler.name = e.handler

\* before history entry k, the candidate (bi, pi, j) was invoked with the
\* request and params of entry k, and threw
InvokedAndThrewBefore(d, k, j) ==
  LET e == d.log[k] IN
  \E a \in At(d, "handler", e.bi, e.pi, j), b \in At(d, "threw", e.bi, e.pi, j) :
    /\ a < b /\ b < k
    /\ d.log[a].request = e.request
    /\ d.log[a].params = e.params

\* before history entry k, the candidate (bi, pi, j), a handler declaring
\* two parameters or more, was passed over without being invoked because the
\* context-builder threw something that is not a Response
SkippedBefore(d, k, j) ==
  LET e == d.log[k] IN
  /\ routes[e.bi].entry[e.pi].handlers[j].length >= 2
  /\ At(d, "handler", e.bi, e.pi, j) = {}
  /\ \E b \in At(d, "builderThrew", e.bi, e.pi, j) :
       b < k /\ ~InstanceOfResponse(d.log[b].val)

HandlerCalls(d) == {k \in DOMAIN d.log : d.log[k].ev = "handler"}

(* -------------------------------- C1 ----------------------------------- *)

\* C1 (as stated): a handler registered after another under the same
\* (method, pattern) is invoked only after the earlier one has been invoked,
\* with the same request and params, and has thrown.
C1_Original ==
  \A i \in Dispatches : LET d == dispatch[i] IN
    \A k \in HandlerCalls(d) :
      /\ InvokesRegistered(d, k)
      /\ \A j \in 1 .. (d.log[k].hi - 1) : InvokedAndThrewBefore(d, k, j)

\* C1 (amended): a handler registered after another under the same (method,
\* pattern) is invoked only after the attempt of the earlier one has failed:
\* the earlier one was invoked with the same request and params and threw, or
\* it declares two or more parameters and was passed over because the
\* context-builder threw a non-Response for its attempt.
C1_FallbackOrder ==
  \A i \in Dispatches : LET d == dispatch[i] IN
    \A k \in HandlerCalls(d) :
      /\ InvokesRegistered(d, k)
      /\ \A j \in 1 .. (d.log[k].hi - 1) :
           InvokedAndThrewBefore(d, k, j) \/ SkippedBefore(d, k, j)

\* the second handler of a pattern is invoked after the first one threw
C1_Witness ==
  \E i \in Dispatches : LET d == dispatch[i] IN
    \E k \in HandlerCalls(d) :
      /\ d.log[k].hi = 2
      /\ InvokedAndThrewBefore(d, k, 1)
      /\ routes[d.log[k].bi].entry[d.log[k].pi].handlers[1].name # d.log[k].handler

(* -------------------------------- C2 ----------------------------------- *)

\* C2: once a handler invocation has returned a value, the dispatch has
\* ended with exactly that value and nothing was invoked for the request
\* afterwards, whatever error was recorded before.
C2_FirstResponseWins ==
  \A i \in Dispatches : LET d == dispatch[i] IN
    \A k \in DOMAIN d.log :
      d.log[k].ev = "returned" =>
        /\ k = Len(d.log)
        /\ Done(d)
        /\ d.result = d.log[k].val

\* a handler returned after an earlier handler's error had been recorded,
\* and a later candidate was left untried
C2_Witness ==
  \E i \in Dispatches : LET d == dispatch[i] IN
    /\ Done(d)
    /\ d.log # <<>>
    /\ d.log[Len(d.log)].ev = "returned"
    /\ ToBoolean(d.lastError)
    /\ d.result = Response(200, d.log[Len(d.log)].handler)
    /\ d.hi < Len(routes[d.bi].entry[d.pi].handlers)

(* -------------------------------- C3 ----------------------------------- *)

\* the history entries where a handler or the context-builder threw
Failures(d) == {k \in DOMAIN d.log : d.log[k].ev \in {"threw", "builderThrew"}}

\* a handler returned a response in this dispatch
SomeReturned(d) == \E k \in DOMAIN d.log : d.log[k].ev = "returned"

\* the context-builder threw a Response in this dispatch
ShortCircuited(d) ==
  \E k \in DOMAIN d.log :
    d.log[k].ev = "builderThrew" /\ InstanceOfResponse(d.log[k].val)

\* the #handler call has settled: it returned a response or it rejected
Settled(d) == d.pc \in {"done", "rejected"}

IsInternalError(r) ==
  /\ r.kind = "Response"
  /\ r.num = 500
  /\ \E v \in {h.throws : h \in HandlerPool} \cup BuilderThrows \cup {URIError} :
       r.text = "{\"message\":\"Internal error\",\"reason\":" \o StringifyValue(v) \o "}"

IsNotFound(r) == r = [kind |-> "Response", text |-> "{\"message\":\"Not found\"}", num |-> 404]

\* C3: a dispatch in which a handler or the context-builder threw (whatever
\* the value thrown), no handler returned and no Response was thrown by the
\* context-builder, answers the synthetic 500 "Internal error".
C3_InternalError ==
  \A i \in Dispatches : LET d == dispatch[i] IN
    (Settled(d) /\ Failures(d) # {} /\ ~SomeReturned(d) /\ ~ShortCircuited(d))
      => (Done(d) /\ IsInternalError(d.result))

(* -------------------------------- C4 ----------------------------------- *)

\* number of segments of a "/"-separated string
SegmentCount(s) == Cardinality({k \in DOMAIN s : s[k] = "/"}) + 1

\* segments of the request's normalized path "/" + host + pathname
RequestSegmentCount(request) ==
  SegmentCount(<<"/">> \o request.host \o request.pathname)

\* C4: a dispatch in which no handler returned, nothing threw and no error
\* was recorded while matching answers exactly 404 {"message":"Not found"}.
C4_NotFound ==
  \A i \in Dispatches : LET d == dispatch[i] IN
    (Settled(d) /\ ~SomeReturned(d) /\ Failures(d) = {}
       /\ \A k \in DOMAIN d.log : d.log[k].ev # "decodeThrew")
      => (Done(d) /\ IsNotFound(d.result) /\ d.log = <<>>)

\* a 404 for a request whose method has an eligible bucket, none of whose
\* patterns has the request's segment count
C4_Witness ==
  \E i \in Dispatches : LET d == dispatch[i] IN
    /\ Done(d) /\ IsNotFound(d.result)
    /\ \E b \in DOMAIN routes : routes[b].method = ToUpperCase(d.request.method)
    /\ \A b \in DOMAIN routes : \A p \in DOMAIN routes[b].entry :
         SegmentCount(routes[b].entry[p].path) # RequestSegmentCount(d.request)

(* -------------------------------- C5 ----------------------------------- *)

\* C5: once the context-builder has thrown a Response, the dispatch has
\* ended with exactly that Response and nothing was invoked afterwards (not
\* the handler the context was built for, nor any later one), whatever
\* error was recorded before.
C5_ShortCircuit ==
  \A i \in Dispatches : LET d == dispatch[i] IN
    \A k \in DOMAIN d.log :
      (d.log[k].ev = "builderThrew" /\ InstanceOfResponse(d.log[k].val)) =>
        /\ k = Len(d.log)
        /\ Done(d)
        /\ d.result = d.log[k].val
        /\ At(d, "handler", d.log[k].bi, d.log[k].pi, d.log[k].hi) = {}

\* the context-builder threw the 401 after an error had been recorded, with
\* a later handler of the pattern left untried
C5_Witness ==
  \E i \in Dispatches : LET d == dispatch[i] IN
    /\ Done(d)
    /\ d.result = Unauthorized
    /\ d.log # <<>> /\ d.log[Len(d.log)].ev = "builderThrew"
    /\ ToBoolean(d.lastError)
    /\ d.hi < Len(routes[d.bi].entry[d.pi].handlers)

(* -------------------------------- C6 ----------------------------------- *)

\* C6: a handler invoked from a method bucket was registered under the
\* request's method, uppercased; and a router with no registration under
\* that method and no wildcard registration answers 404.
C6_MethodFiltering ==
  \A i \in Dispatches : LET d == dispatch[i] IN
    /\ \A k \in HandlerCalls(d) :
         /\ InvokesRegistered(d, k)
         /\ routes[d.log[k].bi].method # Star
              => routes[d.log[k].bi].method = ToUpperCase(d.request.method)
    /\ (Settled(d) /\ \A r \in DOMAIN registered :
                        registered[r].method \notin {Star, ToUpperCase(d.request.method)})
         => (IsNotFound(d.result) /\ d.log = <<>>)

\* the 404 for a POST of a path that matches a pattern registered with get only
C6_Witness ==
  \E i \in Dispatches : LET d == dispatch[i] IN
    /\ Done(d) /\ IsNotFound(d.result)
    /\ d.request = Req(POST, <<"u">>, <<"/", "a">>)
    /\ \E r \in DOMAIN registered :
         registered[r].method = GET /\ registered[r].path = PathUI
    /\ \A r \in DOMAIN registered : registered[r].method = GET

(* -------------------------------- C7 ----------------------------------- *)

\* the request has the pattern's segment count, equals it on every literal
\* segment and has a decodable segment at every parameter position
Matches(path, request) ==
  LET rp == Split(path)
      pp == Split(<<"/">> \o request.host \o request.pathname)
  IN /\ Len(rp) = Len(pp)
     /\ \A k \in DOMAIN rp :
          IF rp[k] # <<>> /\ rp[k][1] = ":"
          THEN DecodeURIComponent(pp[k]).ok
          ELSE rp[k] = pp[k]

\* candidate (bi, pi, hi) was attempted: its handler was invoked, or the
\* context-builder was invoked for it
Attempted(d, bi, pi, hi) ==
  At(d, "handler", bi, pi, hi) # {} \/ At(d, "builder", bi, pi, hi) # {}

\* the dispatch gave up: it ended with the synthetic 404 or 500
GaveUp(d) == Done(d) /\ ~SomeReturned(d) /\ ~ShortCircuited(d)

\* C7: a dispatch gives up only after every handler registered with on() for
\* a matching pattern has been attempted, whatever the request's method, and
\* every handler registered under the request's method for a matching
\* pattern as well.
C7_Wildcard ==
  \A i \in Dispatches : LET d == dispatch[i] IN
    GaveUp(d) =>
      \A r \in DOMAIN registered :
        (/\ registered[r].method \in {Star, ToUpperCase(d.request.method)}
         /\ Matches(registered[r].path, d.request))
        => \E b \in DOMAIN routes : \E p \in DOMAIN routes[b].entry :
             \E h \in DOMAIN routes[b].entry[p].handlers :
               /\ routes[b].method = registered[r].method
               /\ routes[b].entry[p].path = registered[r].path
               /\ routes[b].entry[p].handlers[h] = registered[r].handler
               /\ Attempted(d, b, p, h)

\* a get dispatch that gave up after invoking a handler of the wildcard
\* bucket and a handler of the GET bucket
C7_Witness ==
  \E i \in Dispatches : LET d == dispatch[i] IN
    /\ GaveUp(d)
    /\ \E k \in HandlerCalls(d) : routes[d.log[k].bi].method = Star
    /\ \E k \in HandlerCalls(d) : routes[d.log[k].bi].method = GET

(* -------------------------------- C8 ----------------------------------- *)

\* C8: whatever happens for a pattern in a dispatch (a parameter decoded, the
\* context-builder or a handler invoked) happens only for a pattern that has
\* as many segments as the request's normalized path.
C8_SegmentCount ==
  \A i \in Dispatches : LET d == dispatch[i] IN
    d.log # <<>> =>
      LET n == RequestSegmentCount(d.request) IN
      \A k \in DOMAIN d.log :
        SegmentCount(routes[d.log[k].bi].entry[d.log[k].pi].path) = n

\* a dispatch of a request with two segments, one of them not decodable,
\* over eligible patterns of three segments: nothing was done for them
C8_Witness ==
  \E i \in Dispatches : LET d == dispatch[i] IN
    /\ Done(d)
    /\ d.request = Req(<<"g", "e", "t">>, <<"%">>, <<>>)
    /\ \E b \in DOMAIN routes : \E p \in DOMAIN routes[b].entry :
         /\ routes[b].method \in {GET, Star}
         /\ routes[b].entry[p].path = PathNA
    /\ d.log = <<>>

(* -------------------------------- C9 ----------------------------------- *)

\* the decoded form of the request segments the model sends
Decoded(segment) ==
  CASE segment = <<"%", "4", "1">> -> <<"A">>
    [] OTHER -> segment

\* the request has the pattern's segment count and equals it on every
\* literal segment
ShapeMatches(path, request) ==
  LET rp == Split(path)
      pp == Split(<<"/">> \o request.host \o request.pathname)
  IN /\ Len(rp) = Len(pp)
     /\ \A k \in DOMAIN rp : (rp[k] = <<>> \/ rp[k][1] # ":") => rp[k] = pp[k]

\* each `:name` segment of the pattern mapped to the decoded request segment
\* at its position, and nothing else
ExpectedParams(path, request) ==
  LET rp == Split(path)
      pp == Split(<<"/">> \o request.host \o request.pathname)
  IN {<<Tail(rp[k]), Decoded(pp[k])>> : k \in {j \in DOMAIN rp : rp[j] # <<>> /\ rp[j][1] = ":"}}

\* candidate (b, p, h) was invoked, with the bindings of its pattern
InvokedWithExpectedParams(d, b, p, h) ==
  \E k \in At(d, "handler", b, p, h) :
    /\ d.log[k].handler = routes[b].entry[p].handlers[h].name
    /\ d.log[k].params = ExpectedParams(routes[b].entry[p].path, d.request)

\* C9 (as stated): every handler registered under the request's method for
\* a pattern with the request's shape is invoked by the dispatch, with the
\* decoded parameter bindings (for a request whose parameter segments can be
\* decoded, as the bindings of the claim presuppose).
C9_Original ==
  \A i \in Dispatches : LET d == dispatch[i] IN
    Settled(d) =>
      \A b \in DOMAIN routes :
        routes[b].method = ToUpperCase(d.request.method) =>
          \A p \in DOMAIN routes[b].entry :
            (/\ ShapeMatches(routes[b].entry[p].path, d.request)
             /\ Matches(routes[b].entry[p].path, d.request)) =>
              \A h \in DOMAIN routes[b].entry[p].handlers :
                InvokedWithExpectedParams(d, b, p, h)

\* the context-builder threw a non-Response for candidate (b, p, h), whose
\* handler declares two parameters or more
PassedOver(d, b, p, h) ==
  /\ routes[b].entry[p].handlers[h].length >= 2
  /\ \E k \in At(d, "builderThrew", b, p, h) : ~InstanceOfResponse(d.log[k].val)

\* C9 (amended): every handler invocation passes exactly the decoded
\* bindings of its pattern's `:name` segments; and a dispatch that gave up
\* has invoked, with these bindings, every handler registered under the
\* request's method for a pattern with the request's shape and decodable
\* parameter segments, except those passed over after a context-builder
\* failure.
C9_MatchAndBinding ==
  \A i \in Dispatches : LET d == dispatch[i] IN
    /\ \A k \in HandlerCalls(d) :
         /\ ShapeMatches(routes[d.log[k].bi].entry[d.log[k].pi].path, d.request)
         /\ d.log[k].params = ExpectedParams(routes[d.log[k].bi].entry[d.log[k].pi].path, d.request)
         /\ d.log[k].handler = HandlerAt(routes, d.log[k]).name
    /\ GaveUp(d) =>
         \A b \in DOMAIN routes :
           routes[b].method = ToUpperCase(d.request.method) =>
             \A p \in DOMAIN routes[b].entry :
               Matches(routes[b].entry[p].path, d.request) =>
                 \A h \in DOMAIN routes[b].entry[p].handlers :
                   InvokedWithExpectedParams(d, b, p, h) \/ PassedOver(d, b, p, h)

\* a dispatch of get x://u/%41 gave up after invoking a handler of "/u/:i"
\* with i bound to "A"
C9_Witness ==
  \E i \in Dispatches : LET d == dispatch[i] IN
    /\ GaveUp(d)
    /\ \E k \in HandlerCalls(d) :
         /\ routes[d.log[k].bi].method = GET
         /\ routes[d.log[k].bi].entry[d.log[k].pi].path = PathUI
         /\ d.log[k].params = {<<<<"i">>, <<"A">>>>}

(* -------------------------------- C10 ---------------------------------- *)

\* the history entries where an error was thrown: by a handler, by the
\* context-builder or by the decoding of a parameter segment
Thrown(d) ==
  {k \in DOMAIN d.log : d.log[k].ev \in {"threw", "builderThrew", "decodeThrew"}}

LastThrown(d) == d.log[CHOOSE k \in Thrown(d) : \A j \in Thrown(d) : j <= k].val

\* C10: the reason of a synthetic 500 is the error thrown last in the
\* dispatch.
C10_LastErrorWins ==
  \A i \in Dispatches : LET d == dispatch[i] IN
    (Done(d) /\ d.result.num = 500) =>
      /\ Thrown(d) # {}
      /\ d.result.text =
           "{\"message\":\"Internal error\",\"reason\":" \o StringifyValue(LastThrown(d)) \o "}"

\* a 500 whose reason is the error thrown last, after an error with another
\* serialized form had been recorded
C10_Witness ==
  \E i \in Dispatches : LET d == dispatch[i] IN
    /\ Done(d) /\ d.result.num = 500
    /\ d.result.text = "{\"message\":\"Internal error\",\"reason\":\"a\"}"
    /\ \E k \in Thrown(d) : d.log[k].val = JSError("b") /\ PassedOver(d, d.log[k].bi, d.log[k].pi, d.log[k].hi)

(* -------------------------------- C11 ---------------------------------- *)

\* C11: every call of #handler that has settled has returned a Response (a
\* handler's, a short-circuit one, the 404 or the 500); none has rejected,
\* whatever the handlers and the context-builder threw.
C11_NoFailureEscapes ==
  \A i \in Dispatches : LET d == dispatch[i] IN
    Settled(d) => (Done(d) /\ InstanceOfResponse(d.result))

(* -------------------------------- C12 ---------------------------------- *)

\* the contexts the handlers of a dispatch were invoked with
ContextsPassed(d) == {d.log[k].val : k \in {j \in HandlerCalls(d) : d.log[j].nargs = 2}}

\* C12: in a dispatch the context-builder is invoked at most once, and all
\* the handler invocations that are passed a context are passed the same one.
C12_ContextBuiltOnce ==
  \A i \in Dispatches : LET d == dispatch[i] IN
    /\ BuilderCalls(d) <= 1
    /\ Cardinality(ContextsPassed(d)) <= 1

(* -------------------------------- C13 ---------------------------------- *)

\* history entry k + 1 is the invocation of the candidate of entry k with
\* ({ request, params }) only
InvokedNextWithoutContext(d, k) ==
  /\ k < Len(d.log)
  /\ d.log[k + 1].ev = "handler"
  /\ d.log[k + 1].bi = d.log[k].bi /\ d.log[k + 1].pi = d.log[k].pi
  /\ d.log[k + 1].hi = d.log[k].hi
  /\ d.log[k + 1].request = d.request /\ d.log[k + 1].params = d.log[k].params
  /\ d.log[k + 1].nargs = 1 /\ d.log[k + 1].val = JSUndefined

\* after history entry k (the context-builder threw error) the candidate of
\* entry k is never invoked, the error is the most recent one until the next
\* throw, and the next handler of the pattern, if any, is the next attempt
PassedOverToNext(d, k, error) ==
  LET e == d.log[k] IN
  /\ At(d, "handler", e.bi, e.pi, e.hi) = {}
  /\ k = Len(d.log) =>
       /\ d.lastError = error
       /\ Done(d) /\ d.result = Response(500, InternalErrorBody(error))
  /\ k < Len(d.log) =>
       /\ d.log[k + 1].ev \in {"builder", "decodeThrew"}
       /\ <<d.log[k + 1].bi, d.log[k + 1].pi, d.log[k + 1].hi>> # <<e.bi, e.pi, e.hi>>
       /\ e.hi < Len(routes[e.bi].entry[e.pi].handlers) =>
            /\ d.log[k + 1].ev = "builder"
            /\ d.log[k + 1].bi = e.bi /\ d.log[k + 1].pi = e.pi
            /\ d.log[k + 1].hi = e.hi + 1
       /\ (k + 1 = Len(d.log) /\ d.log[k + 1].ev = "builder") => d.lastError = error

\* C13: when the context-builder throws a non-Response for a candidate, a
\* handler declaring fewer than two parameters is invoked next with
\* ({ request, params }) only and its return value ends the dispatch; a
\* handler declaring two or more is not invoked, the error is recorded as
\* the most recent one and the next candidate is tried. Without a
\* context-builder every invocation passes ({ request, params }) only.
C13_ContextFailureArity ==
  \A i \in Dispatches : LET d == dispatch[i] IN
    /\ \A k \in DOMAIN d.log :
         (d.log[k].ev = "builderThrew" /\ ~InstanceOfResponse(d.log[k].val)) =>
           IF HandlerAt(routes, d.log[k]).length < 2
           THEN /\ InvokedNextWithoutContext(d, k)
                /\ (k + 2 <= Len(d.log) /\ d.log[k + 2].ev = "returned") =>
                     (Done(d) /\ d.result = d.log[k + 2].val /\ Len(d.log) = k + 2)
           ELSE PassedOverToNext(d, k, d.log[k].val)
    /\ ~contextBuilder =>
         \A k \in DOMAIN d.log :
           /\ d.log[k].ev \in {"handler", "returned", "threw", "decodeThrew"}
           /\ d.log[k].ev = "handler" => (d.log[k].nargs = 1 /\ d.log[k].val = JSUndefined)

\* the context-builder threw an Error for a handler declaring two
\* parameters, which was passed over, and then for a handler declaring one,
\* which was invoked without context and whose response ended the dispatch
C13_Witness ==
  \E i \in Dispatches : LET d == dispatch[i] IN
    /\ Done(d)
    /\ \E k \in DOMAIN d.log :
         /\ d.log[k].ev = "builderThrew" /\ d.log[k].val = JSError("b")
         /\ HandlerAt(routes, d.log[k]).length >= 2
         /\ At(d, "handler", d.log[k].bi, d.log[k].pi, d.log[k].hi) = {}
    /\ \E k \in DOMAIN d.log :
         /\ d.log[k].ev = "builderThrew" /\ d.log[k].val = JSError("b")
         /\ HandlerAt(routes, d.log[k]).length < 2
         /\ k + 2 = Len(d.log)
         /\ d.log[k + 1].nargs = 1
         /\ d.log[k + 2].ev = "returned" /\ d.result = d.log[k + 2].val

(* -------------------------------- C14 ---------------------------------- *)

\* C14: a step that changes what register() returned or what is installed
\* on the transport is a register() call that, on a router on which no
\* registration was ever made, returns the configuration error and installs
\* nothing and, on any other router, installs the dispatcher once, for one
\* scheme, and returns no error; in particular no step of a dispatch does
\* either.
C14_BindTimeGuard ==
  [][(handled' # handled \/ registerResult' # registerResult) =>
       IF registered = <<>>
       THEN registerResult' = NoHandlersError /\ handled' = handled
       ELSE /\ registerResult' = JSUndefined
            /\ \E s \in Schemes : handled' = Append(handled, s)
            /\ \A k \in DOMAIN handled : handled[k] # handled'[Len(handled')]]_vars

\* register() was called on a router without registrations: it returned the
\* error and nothing is installed
C14_Witness ==
  /\ registerResult = NoHandlersError
  /\ handled = <<>>
  /\ registered = <<>>

(* -------------------------------- C15 ---------------------------------- *)

\* candidate (b1, p1, h1) comes before candidate (b2, p2, h2) in the order
\* of the table: bucket, then pattern, then handler
ComesBefore(b1, p1, h1, b2, p2, h2) ==
  b1 < b2 \/ (b1 = b2 /\ (p1 < p2 \/ (p1 = p2 /\ h1 < h2)))

\* the candidates of the patterns that match the request in the buckets of
\* its method and of the wildcard
MatchingCandidates(d) ==
  LET m == ToUpperCase(d.request.method) IN
  {c \in UNION {UNION {{<<b, p, h>> : h \in DOMAIN routes[b].entry[p].handlers} :
                         p \in DOMAIN routes[b].entry} : b \in DOMAIN routes} :
     /\ routes[c[1]].method \in {Star, m}
     /\ Matches(routes[c[1]].entry[c[2]].path, d.request)}

\* candidate c was attempted (its handler or the context-builder for it was
\* invoked) before history entry k
AttemptedBefore(d, c, k) ==
  \E j \in 1 .. (k - 1) :
    /\ d.log[j].ev \in {"builder", "handler"}
    /\ d.log[j].bi = c[1] /\ d.log[j].pi = c[2] /\ d.log[j].hi = c[3]

\* C15: a candidate is attempted only after every candidate of a matching
\* pattern that comes before it, in its bucket or in an earlier eligible
\* bucket, has been attempted; and a dispatch gives up (404 or 500) only
\* after every candidate of every matching pattern of every eligible bucket
\* has been attempted.
C15_EveryMatchingPatternTried ==
  \A i \in Dispatches : LET d == dispatch[i] IN
    d.pc # "idle" =>
      LET cands == MatchingCandidates(d) IN
      /\ \A k \in DOMAIN d.log :
           d.log[k].ev \in {"builder", "handler"} =>
             /\ <<d.log[k].bi, d.log[k].pi, d.log[k].hi>> \in cands
             /\ \A c \in cands :
                  ComesBefore(c[1], c[2], c[3], d.log[k].bi, d.log[k].pi, d.log[k].hi)
                    => AttemptedBefore(d, c, k)
      /\ GaveUp(d) => \A c \in cands : AttemptedBefore(d, c, Len(d.log) + 1)

\* a dispatch gave up after invoking the handlers of two matching patterns
\* of the GET bucket and of a matching pattern of the wildcard bucket
C15_Witness ==
  \E i \in Dispatches : LET d == dispatch[i] IN
    /\ GaveUp(d)
    /\ \E j, k, l \in HandlerCalls(d) :
         /\ d.log[j].bi = d.log[k].bi /\ d.log[j].pi # d.log[k].pi
         /\ d.log[l].bi # d.log[j].bi
         /\ {routes[d.log[j].bi].method, routes[d.log[l].bi].method} = {GET, Star}

(* -------------------------------- C16 ---------------------------------- *)

\* no pattern of the buckets of the request's method and of the wildcard
\* has the request's segment count and its literal segments
LookupMiss(d) ==
  \A b \in DOMAIN routes :
    routes[b].method \in {Star, ToUpperCase(d.request.method)} =>
      \A p \in DOMAIN routes[b].entry : ~ShapeMatches(routes[b].entry[p].path, d.request)

\* C16: a dispatch of a request that no eligible pattern matches (segment
\* count and literal segments) answers 404 and has recorded no error,
\* whatever the request's segments are.
C16_LookupMissNoError ==
  \A i \in Dispatches : LET d == dispatch[i] IN
    (Settled(d) /\ LookupMiss(d)) =>
      (Done(d) /\ IsNotFound(d.result) /\ d.lastError = JSNull /\ d.log = <<>>)

(* -------------------------------- C17 ---------------------------------- *)

\* the invocations made in a dispatch, and the settlements it has seen
Invocations(d) == {k \in DOMAIN d.log : d.log[k].ev \in {"builder", "handler"}}
Settlements(d) ==
  {k \in DOMAIN d.log : d.log[k].ev \in {"context", "builderThrew", "returned", "threw"}}

\* history entry k + 1 is the settlement of the invocation at entry k
SettledNext(d, k) ==
  /\ d.log[k + 1].bi = d.log[k].bi /\ d.log[k + 1].pi = d.log[k].pi
  /\ d.log[k + 1].hi = d.log[k].hi
  /\ d.log[k].ev = "builder" => d.log[k + 1].ev \in {"context", "builderThrew"}
  /\ d.log[k].ev = "handler" => d.log[k + 1].ev \in {"returned", "threw"}

\* C17: in a dispatch at most one invocation of the context-builder or of a
\* handler is pending, and every invocation but the pending one was settled
\* before anything else was started.
C17_SequentialAttempts ==
  \A i \in Dispatches : LET d == dispatch[i] IN
    /\ Cardinality(Invocations(d)) - Cardinality(Settlements(d))
         = IF d.pc \in {"builder", "handler"} THEN 1 ELSE 0
    /\ \A k \in Invocations(d) :
         IF k = Len(d.log) THEN d.pc \in {"builder", "handler"} ELSE SettledNext(d, k)

\* the context-builder is pending for the second handler of a pattern,
\* after the builder and the first handler were invoked and have settled
C17_Witness ==
  \E i \in Dispatches : LET d == dispatch[i] IN
    /\ d.pc = "builder"
    /\ d.hi = 2
    /\ Cardinality(Invocations(d)) = 3
    /\ Cardinality(Settlements(d)) = 2

(* -------------------------------- C19 ---------------------------------- *)

\* the handlers of a sequence of registration calls
HandlersOf(regs) == [k \in DOMAIN regs |-> regs[k].handler]

\* C19: each method (or the wildcard) has one bucket and each pattern
\* string one list in it; the list stored for a (method, pattern) is never
\* empty and is exactly the handlers registered for that pair, in call
\* order, duplicates kept; and every pair registered has its list.
C19_AppendOnly ==
  /\ \A b1, b2 \in DOMAIN routes : routes[b1].method = routes[b2].method => b1 = b2
  /\ \A b \in DOMAIN routes :
       /\ routes[b].entry # <<>>
       /\ \A p1, p2 \in DOMAIN routes[b].entry :
            routes[b].entry[p1].path = routes[b].entry[p2].path => p1 = p2
       /\ \A p \in DOMAIN routes[b].entry :
            /\ routes[b].entry[p].handlers # <<>>
            /\ routes[b].entry[p].handlers
                 = HandlersOf(RegisteredUnder(routes[b].method, routes[b].entry[p].path))
  /\ \A r \in DOMAIN registered :
       \E b \in DOMAIN routes : \E p \in DOMAIN routes[b].entry :
         routes[b].method = registered[r].method /\ routes[b].entry[p].path = registered[r].path

\* the same handler was registered twice under one (method, pattern), after
\* which another pattern was registered under the same method: the first
\* list holds the handler twice, the second list holds its own handler
C19_Witness ==
  /\ Len(registered) = 3
  /\ registered[1] = registered[2]
  /\ registered[3].method = registered[1].method
  /\ registered[3].path # registered[1].path
  /\ \E b \in DOMAIN routes :
       /\ Len(routes[b].entry) = 2
       /\ routes[b].entry[1].handlers = <<registered[1].handler, registered[1].handler>>
       /\ routes[b].entry[2].handlers = <<registered[3].handler>>

(* -------------------------------- C20 ---------------------------------- *)

\* the handler invocation at history entry k follows the context-builder
\* invocation made for its candidate
OwnBuilderCall(d, k) ==
  \E j \in At(d, "builder", d.log[k].bi, d.log[k].pi, d.log[k].hi) : j < k

\* the context passed at history entry k is the value the context-builder
\* invocation for that candidate has produced
OwnContext(d, k) ==
  /\ k > 2
  /\ d.log[k - 2].ev = "builder" /\ d.log[k - 1].ev = "context"
  /\ d.log[k - 2].hi = d.log[k].hi /\ d.log[k - 2].pi = d.log[k].pi
  /\ d.log[k - 2].bi = d.log[k].bi
  /\ d.log[k].val = d.log[k - 1].val

\* C20: in a router with a context-builder every handler invocation follows
\* a builder invocation made for its own attempt, a context passed is the
\* value of that invocation, and once the builder has thrown a non-Response
\* it is not invoked again in the dispatch.
C20_ContextPerAttempt ==
  contextBuilder =>
    \A i \in Dispatches : LET d == dispatch[i] IN
      /\ \A k \in HandlerCalls(d) :
           /\ OwnBuilderCall(d, k)
           /\ d.log[k].nargs = 2 => OwnContext(d, k)
      /\ \A k \in DOMAIN d.log :
           (d.log[k].ev = "builderThrew" /\ ~InstanceOfResponse(d.log[k].val)) =>
             \A j \in DOMAIN d.log : j > k => d.log[j].ev # "builder"

(* -------------------------------- C18 ---------------------------------- *)

\* the table that the registration calls made so far build
RECURSIVE TableOf(_)
TableOf(regs) ==
  IF regs = <<>> THEN <<>>
  ELSE LET r == regs[Len(regs)] IN
       AddRoute(TableOf(SubSeq(regs, 1, Len(regs) - 1)), r.method, r.path, r.handler)

\* what the context-builder and the handlers of a dispatch have answered, in
\* order: the values resolved and the values thrown
Outcomes(d) ==
  SelectSeq(d.log, LAMBDA e : e.ev \in {"context", "builderThrew", "returned", "threw"})

\* the frame of a call that is alone on the router, after its pending
\* invocation has settled with outcome o
Resume(rts, cb, d, o) ==
  LET e == Logged(d, Event(o.ev, rts, d, o.val, 0)) IN
  CASE o.ev = "context" -> CallHandlerWithContext(rts, [e EXCEPT !.context = o.val])
    [] o.ev = "builderThrew" -> BuilderFailed(rts, cb, e, o.val)
    [] o.ev = "returned" -> Return(e, o.val)
    [] OTHER -> HandlerFailed(rts, cb, e, o.val)

\* the frame of a call for the request that is alone on the router and gets
\* these outcomes
RECURSIVE RunAlone(_, _, _, _)
RunAlone(rts, cb, request, outcomes) ==
  IF outcomes = <<>>
  THEN Scan(rts, cb, [IdleFrame EXCEPT !.request = request], 1, 1)
  ELSE Resume(rts, cb,
              RunAlone(rts, cb, request, SubSeq(outcomes, 1, Len(outcomes) - 1)),
              outcomes[Len(outcomes)])

\* C18: with several dispatches interleaved at their awaits, the route table
\* is the one the registration calls built, each dispatch is where it would
\* be, with the result it would have, if it ran alone with the outcomes it
\* got, and the error a dispatch holds is one thrown in that dispatch.
C18_Independent ==
  /\ routes = TableOf(registered)
  /\ \A i \in Dispatches : LET d == dispatch[i] IN
       d.pc # "idle" =>
         /\ d = RunAlone(routes, contextBuilder, d.request, Outcomes(d))
         /\ d.lastError = JSNull \/ \E k \in Thrown(d) : d.log[k].val = d.lastError

\* the first call has ended with the 500 for the string its handler threw
\* while the second call, started after it, is still awaiting a handler and
\* holds the context-builder's error
C18_Witness ==
  /\ Done(dispatch[1]) /\ dispatch[1].result.num = 500
  /\ dispatch[1].lastError = JSString("a")
  /\ dispatch[2].pc = "handler"
  /\ dispatch[2].lastError = JSError("b")

(* -------------------------------- C21 ---------------------------------- *)

\* the terminal states of a dispatch
Responded(d) ==
  /\ Done(d) /\ d.log # <<>>
  /\ LET e == d.log[Len(d.log)] IN
       /\ e.ev = "returned" \/ (e.ev = "builderThrew" /\ InstanceOfResponse(e.val))
       /\ d.result = e.val
AnsweredNotFound(d) == GaveUp(d) /\ IsNotFound(d.result)
AnsweredInternalError(d) ==
  GaveUp(d) /\ d.result.kind = "Response" /\ d.result.num = 500

\* how many of the three terminal states the frame is in
TerminalCount(d) ==
  Cardinality({t \in {"responded", "notFound", "internalError"} :
     \/ t = "responded" /\ Responded(d)
     \/ t = "notFound" /\ AnsweredNotFound(d)
     \/ t = "internalError" /\ AnsweredInternalError(d)})

\* the call is suspended at an await whose invocation has not settled yet
AwaitingSettlement(d) ==
  /\ d.pc \in {"builder", "handler"}
  /\ d.log # <<>> /\ d.log[Len(d.log)].ev = d.pc

\* C21: a dispatch that has started is either awaiting an invocation that
\* has not settled yet, or in exactly one terminal state (responded, 404,
\* 500), so that it ends once the invocations settle; and no candidate is
\* attempted twice: its handler is invoked at most once and the
\* context-builder is invoked at most once for it.
C21_Termination ==
  \A i \in Dispatches : LET d == dispatch[i] IN
    d.pc # "idle" =>
      /\ IF AwaitingSettlement(d) THEN TerminalCount(d) = 0 ELSE TerminalCount(d) = 1
      /\ \A j, k \in DOMAIN d.log :
           (/\ d.log[j].ev \in {"builder", "handler"}
            /\ d.log[j].ev = d.log[k].ev
            /\ d.log[j].bi = d.log[k].bi /\ d.log[j].pi = d.log[k].pi
            /\ d.log[j].hi = d.log[k].hi) => j = k

(* -------------------------------- C22 ---------------------------------- *)

\* the schemes given to the provider, in call order
RegisteredSchemes(calls) == [k \in DOMAIN calls |-> CustomSchemeOf(calls[k].scheme)]

\* for each pair given to the provider, in call order: one call of its
\* factory, then one register call on session s's protocol under its scheme
ExpectedWiring(calls, s) ==
  [j \in 1 .. (2 * Len(calls)) |->
     LET k == (j + 1) \div 2 IN
     IF j % 2 = 1
     THEN <<"router", calls[k].factory, 0, "">>
     ELSE <<"register", calls[k].factory, s, calls[k].scheme>>]

\* what was called, on which protocol and with which scheme
WiringOf(calls) ==
  [j \in DOMAIN calls |-> <<calls[j].op, calls[j].factory, calls[j].protocol, calls[j].scheme>>]

\* C22: the creation of a session after apply() causes, for each pair given
\* to the provider and in that order, exactly one factory call and one
\* register call on that session's protocol under the pair's scheme, and
\* nothing later is done for that session; a session created before apply()
\* causes nothing; apply() makes one privileged-scheme declaration, of every
\* scheme given so far in order; and the customScheme getter returns the
\* schemes given, in order.
C22_FacadeWiring ==
  [][/\ \A s \in Sessions :
          /\ (~electron.sessions[s].created /\ electron'.sessions[s].created) =>
               WiringOf(electron'.sessions[s].calls) =
                 IF electron.declarations # <<>>
                 THEN ExpectedWiring(providerCalls, s)
                 ELSE <<>>
          /\ electron.sessions[s].created => electron'.sessions[s] = electron.sessions[s]
     /\ electron'.declarations # electron.declarations =>
          /\ electron'.declarations = <<RegisteredSchemes(providerCalls)>>
          /\ electron.listeners = 0 /\ electron'.listeners = 1
     /\ CustomSchemes(schemeRouters') = RegisteredSchemes(providerCalls')]_vars

\* two pairs were given, apply() declared both schemes, and a session
\* created afterwards got the two factory calls and the two register calls
\* in that order, the first on a router without registrations
C22_Witness ==
  \E s \in Sessions :
    /\ Len(providerCalls) = 2
    /\ providerCalls[1].factory = "bare" /\ providerCalls[2].factory = "user"
    /\ electron.declarations = <<RegisteredSchemes(providerCalls)>>
    /\ electron.sessions[s].created
    /\ Len(electron.sessions[s].calls) = 4
    /\ electron.sessions[s].calls[2].scheme = providerCalls[1].scheme
    /\ electron.sessions[s].calls[4].scheme = providerCalls[2].scheme
    /\ electron.sessions[s].calls[4].protocol = s

(* -------------------------------- C23 ---------------------------------- *)

\* the registration calls made under a method (or the wildcard), and under
\* a method and a pattern string
CallsUnder(method) == {r \in DOMAIN registered : registered[r].method = method}
CallsUnderPath(method, path) ==
  {r \in CallsUnder(method) : registered[r].path = path}

\* the least element of a non-empty set of numbers
Least(S) == CHOOSE r \in S : \A q \in S : r <= q

\* the place of the candidate of history entry k in the trial order: the
\* time its bucket was created, the time its pattern was first registered
\* in the bucket, and the time of its own registration call
TrialKey(d, k) ==
  LET method == routes[d.log[k].bi].method
      path == routes[d.log[k].bi].entry[d.log[k].pi].path
      calls == CallsUnderPath(method, path)
  IN << Least(CallsUnder(method)),
        Least(calls),
        CHOOSE r \in calls : Cardinality({q \in calls : q <= r}) = d.log[k].hi >>

\* key x comes before key y in the lexicographic order
KeyBefore(x, y) ==
  x[1] < y[1] \/ (x[1] = y[1] /\ (x[2] < y[2] \/ (x[2] = y[2] /\ x[3] < y[3])))

\* the history entries that start the attempt of a candidate: the
\* context-builder invocation for it or, in a router without
\* context-builder, the handler invocation
AttemptStarts(d) ==
  {k \in DOMAIN d.log : d.log[k].ev = IF contextBuilder THEN "builder" ELSE "handler"}

\* C23: the candidates of a dispatch are attempted in the order of (creation
\* time of the bucket, first registration of the pattern in the bucket,
\* registration of the handler), not in the order of the registration calls.
C23_TrialOrder ==
  \A i \in Dispatches : LET d == dispatch[i] IN
    Len(d.log) > 1 =>
      LET starts == AttemptStarts(d)
          key == [k \in starts |-> TrialKey(d, k)]
      IN \A j, k \in starts : j < k => KeyBefore(key[j], key[k])

\* after get(p, h), on(p, h'), get(p, h'') a get request was attempted on
\* the handler of the first, then of the third, then of the second call
C23_Witness ==
  \E i \in Dispatches : LET d == dispatch[i] IN
    /\ Len(registered) = 3
    /\ registered[1].method = GET /\ registered[2].method = Star
    /\ registered[3].method = GET
    /\ registered[1].path = registered[2].path /\ registered[2].path = registered[3].path
    /\ \E j, k, l \in HandlerCalls(d) :
         /\ j < k /\ k < l
         /\ TrialKey(d, j)[3] = 1 /\ TrialKey(d, k)[3] = 3 /\ TrialKey(d, l)[3] = 2

(* -------------------------------- C24 ---------------------------------- *)

\* the context-builder invocations of a dispatch
BuilderInvocations(d) == {k \in DOMAIN d.log : d.log[k].ev = "builder"}

\* C24: a dispatch whose request matches no pattern of an eligible bucket
\* never invokes the context-builder and answers the 404; and every
\* context-builder invocation is made for a pattern that matches the
\* request, the first one before any handler was invoked and for the first
\* handler of its pattern.
C24_BuilderOnlyForMatched ==
  \A i \in Dispatches : LET d == dispatch[i] IN
    /\ (Settled(d) /\ LookupMiss(d)) =>
         (BuilderInvocations(d) = {} /\ Done(d) /\ IsNotFound(d.result))
    /\ \A k \in BuilderInvocations(d) :
         /\ Matches(routes[d.log[k].bi].entry[d.log[k].pi].path, d.request)
         /\ (\A j \in BuilderInvocations(d) : k <= j) =>
              /\ d.log[k].hi = 1
              /\ \A j \in HandlerCalls(d) : k < j

====
